---- MODULE Spec2Model ----
(***************************************************************************)
(* Model of persist/sqldb/sqldb.go: the database session builder.          *)
(*                                                                         *)
(* The state is what outlives a call: the caller's persistence             *)
(* configuration (a Go pointer, whose MySQL Options map is a reference     *)
(* shared with the builder), the secret store, the MySQL driver's          *)
(* process-wide TLS profile registry, the sessions the database clients    *)
(* have opened, and the record of the calls made so far.                   *)
(*                                                                         *)
(* Each exported function is an operator that threads this state through   *)
(* the statements of the Go function, in order, with the early returns of  *)
(* the source.  The outcome of every fallible external call (Open, Exec,   *)
(* RegisterTLSConfig) is drawn nondeterministically per call.              *)
(***************************************************************************)
EXTENDS Integers, Sequences, FiniteSets, TLC

VARIABLES persistConfig, secretStore, tlsRegistry, sessions, calls, tableNameCall

vars == <<persistConfig, secretStore, tlsRegistry, sessions, calls, tableNameCall>>

\* Number of CreateDBSession calls a behaviour makes.
MaxCalls == 2

\* A nil pointer, a nil map, a nil session.
Nil == [nil |-> TRUE]

\* The nil error.
NoErr == "nil"

\* An empty Go map (map[string]string{}).
EmptyMap == <<>>

\* The zero value apiv1.SecretKeySelector{}.
EmptySelector == "<empty selector>"

----------------------------------------------------------------------------
(* Inputs: the configurations and secret stores the calls are made with.   *)

UsernameSelector == "username-secret"
PasswordSelector == "password-secret"
CaCertSelector == "ca-secret"
Selectors == {UsernameSelector, PasswordSelector, CaCertSelector}

ValidPEM == "-----BEGIN CERTIFICATE-----"
InvalidPEM == "not a certificate"

TableNames == {"", "argo_workflows"}

PostgreSQLConfigs ==
  [ Host : {"pg.svc"}, Database : {"argo"}, TableName : TableNames,
    UsernameSecret : {UsernameSelector}, PasswordSecret : {PasswordSelector},
    SSL : BOOLEAN, SSLMode : {"", "require"} ]

OptionMaps == {Nil, EmptyMap, "parseTime" :> "true", "tls" :> "skip-verify"}

MySQLConfigs ==
  [ Host : {"mysql.svc"}, Database : {"argo"}, TableName : TableNames,
    UsernameSecret : {UsernameSelector}, PasswordSecret : {PasswordSelector},
    Options : OptionMaps, CaCertSecret : {EmptySelector, CaCertSelector} ]

\* The MySQL configurations paired with a PostgreSQL one (both backends set):
\* the builder never reads them, GetTableName must not either.
ShadowedMySQLConfigs ==
  { m \in MySQLConfigs : m.Options = Nil /\ m.CaCertSecret = EmptySelector }

ConnectionPools ==
  { Nil,
    [MaxOpenConns |-> 5, MaxIdleConns |-> 2, ConnMaxLifetime |-> 60],
    [MaxOpenConns |-> 0, MaxIdleConns |-> 7, ConnMaxLifetime |-> 0] }

PersistConfigs ==
  {Nil} \cup
  [ PostgreSQL : {Nil}, MySQL : {Nil} \cup MySQLConfigs, ConnectionPool : ConnectionPools ] \cup
  [ PostgreSQL : PostgreSQLConfigs, MySQL : {Nil} \cup ShadowedMySQLConfigs,
    ConnectionPool : ConnectionPools ]

SecretFound(bytes) == [bytes |-> bytes, err |-> NoErr]
SecretMissing(sel) == [bytes |-> "", err |-> "secret not found: " \o sel]

\* A deterministic secret store: every selector has one fixed answer.
SecretStores ==
  { s \in [Selectors -> { SecretFound("argo"), SecretFound("s3cret"), SecretFound(ValidPEM),
                          SecretFound(InvalidPEM) } \cup { SecretMissing(x) : x \in Selectors }] :
      /\ s[UsernameSelector] \in {SecretFound("argo"), SecretMissing(UsernameSelector)}
      /\ s[PasswordSelector] \in {SecretFound("s3cret"), SecretMissing(PasswordSelector)}
      /\ s[CaCertSelector] \in {SecretFound(ValidPEM), SecretFound(InvalidPEM),
                                SecretMissing(CaCertSelector)} }

\* The outcomes of the fallible external calls of one builder call.
Envs == [ registerOK : BOOLEAN, openOK : BOOLEAN, exec1OK : BOOLEAN, exec2OK : BOOLEAN ]

----------------------------------------------------------------------------
(* External collaborators.                                                 *)

\* util.GetSecrets: the bytes of the secret, or the store's error.
GetSecrets(store, selector) == store[selector]

\* cfg.GetHostname()
GetHostname(cfg) == cfg.Host

\* x509.CertPool.AppendCertsFromPEM: ok iff a certificate was parsed.
AppendCertsFromPEM(bytes) == bytes = ValidPEM

\* mysqldriver.RegisterTLSConfig(key, config): sets (or replaces) the
\* process-wide profile `key`, or fails and leaves the registry alone.
RegisterTLSConfig(registry, key, rootCAs, ok) ==
  IF ok
    THEN [registry |-> (key :> rootCAs) @@ registry, err |-> NoErr]
    ELSE [registry |-> registry, err |-> "invalid TLS config key"]

\* postgresql.Open / mysql.Open: a new session of the client, or an error.
Open(ss, driver, settings, ok) ==
  IF ok
    THEN [sessions |-> Append(ss, [driver |-> driver, settings |-> settings,
                                   setters |-> <<>>, execs |-> <<>>]),
          session |-> Len(ss) + 1, err |-> NoErr]
    ELSE [sessions |-> ss, session |-> 0, err |-> "cannot open " \o driver \o " session"]

\* session.SetMaxOpenConns / SetMaxIdleConns / SetConnMaxLifetime
Setter(ss, session, name, value) ==
  [ss EXCEPT ![session].setters = Append(@, <<name, value>>)]

\* session.Exec(statement): the statement reaches the session; it may fail.
Exec(ss, session, statement, ok) ==
  [sessions |-> [ss EXCEPT ![session].execs = Append(@, <<statement, ok>>)],
   err |-> IF ok THEN NoErr ELSE "exec failed: " \o statement]

----------------------------------------------------------------------------
(* persist/sqldb/sqldb.go                                                  *)

GetSecretsEvent(selector) == "GetSecrets(" \o selector \o ")"

\* Mutant of ConfigureDBSession: the open and idle limits are swapped.
ConfigureDBSessionSwapped(ss, session, persistPool) ==
  IF persistPool # Nil
    THEN LET s1 == Setter(ss, session, "SetMaxOpenConns", persistPool.MaxIdleConns)
             s2 == Setter(s1, session, "SetMaxIdleConns", persistPool.MaxOpenConns)
             s3 == Setter(s2, session, "SetConnMaxLifetime", persistPool.ConnMaxLifetime)
         IN  [sessions |-> s3, session |-> session,
              log |-> <<"SetMaxOpenConns", "SetMaxIdleConns", "SetConnMaxLifetime">>]
    ELSE [sessions |-> ss, session |-> session, log |-> <<>>]

\* ConfigureDBSession(session, persistPool): the same session, with the pool
\* limits set on it when a pool configuration is given.
ConfigureDBSession(ss, session, persistPool) ==
  IF persistPool # Nil
    THEN LET s1 == Setter(ss, session, "SetMaxOpenConns", persistPool.MaxOpenConns)
             s2 == Setter(s1, session, "SetMaxIdleConns", persistPool.MaxIdleConns)
             s3 == Setter(s2, session, "SetConnMaxLifetime", persistPool.ConnMaxLifetime)
         IN  [sessions |-> s3, session |-> session,
              log |-> <<"SetMaxOpenConns", "SetMaxIdleConns", "SetConnMaxLifetime">>]
    ELSE [sessions |-> ss, session |-> session, log |-> <<>>]

\* Mutant of PostgresSettings: sslmode is set whenever SSL is enabled, even
\* to the empty string.
PostgresSettingsAnySSLMode(cfg, userNameByte, passwordByte) ==
  [ User |-> userNameByte, Password |-> passwordByte,
    Host |-> GetHostname(cfg), Database |-> cfg.Database,
    Options |-> IF cfg.SSL THEN "sslmode" :> cfg.SSLMode ELSE Nil ]

\* The connection descriptor of CreatePostGresDBSession.
PostgresSettings(cfg, userNameByte, passwordByte) ==
  [ User |-> userNameByte, Password |-> passwordByte,
    Host |-> GetHostname(cfg), Database |-> cfg.Database,
    Options |-> IF cfg.SSL /\ cfg.SSLMode # ""
                  THEN "sslmode" :> cfg.SSLMode
                  ELSE Nil ]

\* What a builder returns when it stops before Open.
Failed(err, log, ss) ==
  [session |-> 0, err |-> err, log |-> log, settings |-> Nil, sessions |-> ss]

\* Mutant of GetCredentials: the error of the password lookup is dropped.
GetCredentialsPasswordUnchecked(store, cfg) ==
  LET user == GetSecrets(store, cfg.UsernameSecret)
      pass == GetSecrets(store, cfg.PasswordSecret)
      log1 == <<GetSecretsEvent(cfg.UsernameSecret)>>
      log2 == Append(log1, GetSecretsEvent(cfg.PasswordSecret))
  IN  IF user.err # NoErr
        THEN [err |-> user.err, log |-> log1, userNameByte |-> "", passwordByte |-> ""]
      ELSE [err |-> NoErr, log |-> log2,
            userNameByte |-> user.bytes, passwordByte |-> pass.bytes]

\* The username and password lookups that open both builders: the password
\* is looked up only once the username has been retrieved.
GetCredentials(store, cfg) ==
  LET user == GetSecrets(store, cfg.UsernameSecret)
      pass == GetSecrets(store, cfg.PasswordSecret)
      log1 == <<GetSecretsEvent(cfg.UsernameSecret)>>
      log2 == Append(log1, GetSecretsEvent(cfg.PasswordSecret))
  IN  IF user.err # NoErr
        THEN [err |-> user.err, log |-> log1, userNameByte |-> "", passwordByte |-> ""]
      ELSE IF pass.err # NoErr
        THEN [err |-> pass.err, log |-> log2, userNameByte |-> "", passwordByte |-> ""]
      ELSE [err |-> NoErr, log |-> log2,
            userNameByte |-> user.bytes, passwordByte |-> pass.bytes]

CreatePostGresDBSession(store, cfg, persistPool, env, ss) ==
  LET cred == GetCredentials(store, cfg)
  IN  IF cred.err # NoErr THEN Failed(cred.err, cred.log, ss) ELSE
  LET settings == PostgresSettings(cfg, cred.userNameByte, cred.passwordByte)
      opened == Open(ss, "postgresql", settings, env.openOK)
      log3 == Append(cred.log, "Open")
  IN  IF opened.err # NoErr
        THEN [Failed(opened.err, log3, ss) EXCEPT !.settings = settings]
        ELSE
  LET conf == ConfigureDBSession(opened.sessions, opened.session, persistPool)
  IN  [session |-> conf.session, err |-> NoErr, log |-> log3 \o conf.log,
       settings |-> settings, sessions |-> conf.sessions]

\* settings.Options of CreateMySQLDBSession before the TLS block: the caller's
\* map itself when there is one, a fresh map otherwise.
MySQLOptions(cfg) == IF cfg.Options # Nil THEN cfg.Options ELSE EmptyMap

\* A Go map is a reference: what the caller's cfg.Options holds once
\* settings.Options holds `options`.
CallerOptions(cfg, options) == IF cfg.Options # Nil THEN options ELSE cfg.Options

\* Mutant of MySQLTLS: the result of AppendCertsFromPEM is not checked.
MySQLTLSPEMUnchecked(store, cfg, options, registry, env) ==
  IF cfg.CaCertSecret # EmptySelector
    THEN
      LET ca == GetSecrets(store, cfg.CaCertSecret)
          log1 == <<GetSecretsEvent(cfg.CaCertSecret)>>
          log3 == log1 \o <<"AppendCertsFromPEM", "RegisterTLSConfig">>
          reg == RegisterTLSConfig(registry, "argo-ca-cert", ca.bytes, env.registerOK)
      IN  IF ca.err # NoErr
            THEN [err |-> ca.err, log |-> log1, options |-> options, registry |-> registry]
          ELSE IF reg.err # NoErr
            THEN [err |-> reg.err, log |-> log3, options |-> options,
                  registry |-> reg.registry]
          ELSE [err |-> NoErr, log |-> log3,
                options |-> ("tls" :> "argo-ca-cert") @@ options,
                registry |-> reg.registry]
    ELSE [err |-> NoErr, log |-> <<>>, options |-> options, registry |-> registry]

\* The CA-certificate block of CreateMySQLDBSession.  Its three error
\* returns are written `return nil, "", err`, one value more than the
\* function declares; they are read as `return nil, err`.
MySQLTLS(store, cfg, options, registry, env) ==
  IF cfg.CaCertSecret # EmptySelector
    THEN
      LET ca == GetSecrets(store, cfg.CaCertSecret)
          log1 == <<GetSecretsEvent(cfg.CaCertSecret)>>
          log2 == Append(log1, "AppendCertsFromPEM")
          log3 == Append(log2, "RegisterTLSConfig")
          reg == RegisterTLSConfig(registry, "argo-ca-cert", ca.bytes, env.registerOK)
      IN  IF ca.err # NoErr
            THEN [err |-> ca.err, log |-> log1, options |-> options, registry |-> registry]
          ELSE IF ~AppendCertsFromPEM(ca.bytes)
            THEN [err |-> "failed to append PEM", log |-> log2,
                  options |-> options, registry |-> registry]
          ELSE IF reg.err # NoErr
            THEN [err |-> reg.err, log |-> log3, options |-> options,
                  registry |-> reg.registry]
          ELSE [err |-> NoErr, log |-> log3,
                options |-> ("tls" :> "argo-ca-cert") @@ options,
                registry |-> reg.registry]
    ELSE [err |-> NoErr, log |-> <<>>, options |-> options, registry |-> registry]

\* Mutant of MySQLConnect: the error of the first charset statement is
\* overwritten by the second statement's.
MySQLConnectFirstExecUnchecked(ss, settings, persistPool, env) ==
  LET opened == Open(ss, "mysql", settings, env.openOK)
      log1 == <<"Open">>
  IN  IF opened.err # NoErr
        THEN [Failed(opened.err, log1, ss) EXCEPT !.settings = settings]
        ELSE
  LET conf == ConfigureDBSession(opened.sessions, opened.session, persistPool)
      ex1 == Exec(conf.sessions, conf.session, "SET NAMES 'utf8mb4'", env.exec1OK)
      ex2 == Exec(ex1.sessions, conf.session, "SET CHARACTER SET utf8mb4", env.exec2OK)
      log3 == log1 \o conf.log
                \o <<"Exec(SET NAMES 'utf8mb4')", "Exec(SET CHARACTER SET utf8mb4)">>
  IN  IF ex2.err # NoErr
        THEN [Failed(ex2.err, log3, ex2.sessions) EXCEPT !.settings = settings]
        ELSE [session |-> conf.session, err |-> NoErr, log |-> log3,
              settings |-> settings, sessions |-> ex2.sessions]

\* Open, pool configuration and the two charset statements of
\* CreateMySQLDBSession.
MySQLConnect(ss, settings, persistPool, env) ==
  LET opened == Open(ss, "mysql", settings, env.openOK)
      log1 == <<"Open">>
  IN  IF opened.err # NoErr
        THEN [Failed(opened.err, log1, ss) EXCEPT !.settings = settings]
        ELSE
  LET conf == ConfigureDBSession(opened.sessions, opened.session, persistPool)
      ex1 == Exec(conf.sessions, conf.session, "SET NAMES 'utf8mb4'", env.exec1OK)
      log2 == Append(log1 \o conf.log, "Exec(SET NAMES 'utf8mb4')")
  IN  IF ex1.err # NoErr
        THEN [Failed(ex1.err, log2, ex1.sessions) EXCEPT !.settings = settings]
        ELSE
  LET ex2 == Exec(ex1.sessions, conf.session, "SET CHARACTER SET utf8mb4", env.exec2OK)
      log3 == Append(log2, "Exec(SET CHARACTER SET utf8mb4)")
  IN  IF ex2.err # NoErr
        THEN [Failed(ex2.err, log3, ex2.sessions) EXCEPT !.settings = settings]
        ELSE [session |-> conf.session, err |-> NoErr, log |-> log3,
              settings |-> settings, sessions |-> ex2.sessions]

\* What the MySQL builder leaves outside the call: the caller's options map
\* and the driver's TLS registry.
Outside(r, options, registry) ==
  [session |-> r.session, err |-> r.err, log |-> r.log, settings |-> r.settings,
   sessions |-> r.sessions, options |-> options, registry |-> registry]

\* Mutant of CheckTableName: the guard is missing.
CheckTableNameMissing(cfg) == NoErr

\* The guard that opens CreateMySQLDBSession: the error it returns, if any.
CheckTableName(cfg) == IF cfg.TableName = "" THEN "tableName is empty" ELSE NoErr

CreateMySQLDBSession(store, cfg, persistPool, env, registry, ss) ==
  IF CheckTableName(cfg) # NoErr
    THEN Outside(Failed(CheckTableName(cfg), <<>>, ss), cfg.Options, registry)
    ELSE
  LET cred == GetCredentials(store, cfg)
  IN  IF cred.err # NoErr
        THEN Outside(Failed(cred.err, cred.log, ss), cfg.Options, registry)
        ELSE
  LET tls == MySQLTLS(store, cfg, MySQLOptions(cfg), registry, env)
      log3 == cred.log \o tls.log
  IN  IF tls.err # NoErr
        THEN Outside(Failed(tls.err, log3, ss), CallerOptions(cfg, tls.options),
                     tls.registry)
        ELSE
  LET settings == [ User |-> cred.userNameByte, Password |-> cred.passwordByte,
                    Host |-> GetHostname(cfg), Database |-> cfg.Database,
                    Options |-> tls.options ]
      conn == MySQLConnect(ss, settings, persistPool, env)
  IN  Outside([conn EXCEPT !.log = log3 \o @], CallerOptions(cfg, tls.options),
              tls.registry)

\* Mutant of NoDatabase: the last return carries no error.
NoDatabaseNilError(ss) == Failed(NoErr, <<>>, ss)

\* The last return of CreateDBSession: neither backend is configured.
NoDatabase(ss) == Failed("no databases are configured", <<>>, ss)

\* CreateDBSession: the result of the builder it dispatches to (`builder`
\* names it), with what the call leaves in the caller's configuration and
\* in the driver's registry.
CreateDBSession(store, cfg, env, registry, ss) ==
  IF cfg = Nil
    THEN Failed("Persistence config is not found", <<>>, ss)
           @@ [builder |-> "none", persistConfig |-> cfg, registry |-> registry]
  ELSE IF cfg.PostgreSQL # Nil
    THEN CreatePostGresDBSession(store, cfg.PostgreSQL, cfg.ConnectionPool, env, ss)
           @@ [builder |-> "postgresql", persistConfig |-> cfg, registry |-> registry]
  ELSE IF cfg.MySQL # Nil
    THEN LET r == CreateMySQLDBSession(store, cfg.MySQL, cfg.ConnectionPool, env,
                                       registry, ss)
         IN  [session |-> r.session, err |-> r.err, log |-> r.log,
              settings |-> r.settings, sessions |-> r.sessions, registry |-> r.registry,
              builder |-> "mysql",
              persistConfig |-> [cfg EXCEPT !.MySQL.Options = r.options]]
  ELSE NoDatabase(ss)
         @@ [builder |-> "none", persistConfig |-> cfg, registry |-> registry]

\* Mutant of GetTableName: an empty PostgreSQL table name falls through to
\* the MySQL one.
GetTableNameFallThrough(cfg) ==
  IF cfg = Nil THEN [name |-> "", err |-> NoErr, panic |-> TRUE] ELSE
  LET tableName == IF cfg.PostgreSQL # Nil /\ cfg.PostgreSQL.TableName # ""
                     THEN cfg.PostgreSQL.TableName
                   ELSE IF cfg.MySQL # Nil THEN cfg.MySQL.TableName
                   ELSE ""
  IN  IF tableName = ""
        THEN [name |-> "", err |-> "TableName is empty", panic |-> FALSE]
        ELSE [name |-> tableName, err |-> NoErr, panic |-> FALSE]

\* GetTableName dereferences persistConfig: a nil pointer panics.
GetTableName(cfg) ==
  IF cfg = Nil THEN [name |-> "", err |-> NoErr, panic |-> TRUE] ELSE
  LET tableName == IF cfg.PostgreSQL # Nil THEN cfg.PostgreSQL.TableName
                   ELSE IF cfg.MySQL # Nil THEN cfg.MySQL.TableName
                   ELSE ""
  IN  IF tableName = ""
        THEN [name |-> "", err |-> "TableName is empty", panic |-> FALSE]
        ELSE [name |-> tableName, err |-> NoErr, panic |-> FALSE]

----------------------------------------------------------------------------
(* The state machine: a process that holds one configuration and one       *)
(* secret store and calls the exported functions on them.                   *)

NotCalled == [called |-> FALSE]

Init ==
  /\ persistConfig \in PersistConfigs
  /\ secretStore \in SecretStores
  /\ tlsRegistry = EmptyMap
  /\ sessions = <<>>
  /\ calls = <<>>
  /\ tableNameCall = NotCalled

\* CreateDBSession(kubectlConfig, namespace, persistConfig)
CallCreateDBSession ==
  /\ Len(calls) < MaxCalls
  /\ \E env \in Envs :
       LET r == CreateDBSession(secretStore, persistConfig, env, tlsRegistry, sessions)
       IN  /\ persistConfig' = r.persistConfig
           /\ tlsRegistry' = r.registry
           /\ sessions' = r.sessions
           /\ calls' = Append(calls,
                [ builder |-> r.builder,
                  cfgBefore |-> persistConfig, cfgAfter |-> r.persistConfig,
                  registryBefore |-> tlsRegistry, registryAfter |-> r.registry,
                  sessionsBefore |-> Len(sessions), sessionsAfter |-> Len(r.sessions),
                  session |-> r.session, err |-> r.err, log |-> r.log,
                  settings |-> r.settings ])
  /\ UNCHANGED <<secretStore, tableNameCall>>

\* GetTableName(persistConfig)
CallGetTableName ==
  /\ tableNameCall' = [called |-> TRUE, cfg |-> persistConfig,
                       result |-> GetTableName(persistConfig)]
  /\ UNCHANGED <<persistConfig, secretStore, tlsRegistry, sessions, calls>>

Next == CallCreateDBSession \/ CallGetTableName

Spec == Init /\ [][Next]_vars

TypeOK ==
  /\ Len(calls) <= MaxCalls
  /\ Len(sessions) <= Len(calls)

----------------------------------------------------------------------------
(* Properties.  Each is stated on the record the calls leave: what the     *)
(* call was given, the external calls it made (log), what it returned and  *)
(* what it left behind.                                                    *)

Range(seq) == { seq[i] : i \in DOMAIN seq }

NeitherSet(cfg) == cfg = Nil \/ (cfg.PostgreSQL = Nil /\ cfg.MySQL = Nil)

IsSecretLookup(event) == \E sel \in Selectors \cup {EmptySelector} : event = GetSecretsEvent(sel)

NoSecretLookup(c) == \A e \in Range(c.log) : ~IsSecretLookup(e)

\* No Open call was made and the client holds no new session.
NothingOpened(c) == "Open" \notin Range(c.log) /\ c.sessionsAfter = c.sessionsBefore

\* C1: CreateDBSession with no configuration, or with a configuration in
\* which neither PostgreSQL nor MySQL is set, returns an error and no
\* session, looks up no secret and opens no session.
C1_NeitherBackend ==
  \A c \in Range(calls) :
    NeitherSet(c.cfgBefore) =>
      /\ c.err # NoErr
      /\ c.session = 0
      /\ NoSecretLookup(c)
      /\ NothingOpened(c)

C1_Witness ==
  \E c \in Range(calls) :
    /\ c.cfgBefore # Nil
    /\ NeitherSet(c.cfgBefore)
    /\ c.err = "no databases are configured"

\* C2: every execution of CreateMySQLDBSession with an empty table name
\* returns the table-name error with no secret lookup at all, no TLS profile
\* registered and no session opened.
C2_EmptyTableNameFirst ==
  \A c \in Range(calls) :
    (c.builder = "mysql" /\ c.cfgBefore.MySQL.TableName = "") =>
      /\ c.err = "tableName is empty"
      /\ c.session = 0
      /\ c.log = <<>>
      /\ c.registryAfter = c.registryBefore
      /\ NothingOpened(c)

C2_Witness ==
  \E c \in Range(calls) :
    /\ c.builder = "mysql"
    /\ c.cfgBefore.MySQL.TableName = ""
    /\ c.cfgBefore.MySQL.CaCertSecret # EmptySelector
    /\ secretStore[UsernameSelector].err # NoErr
    /\ c.err = "tableName is empty"

\* The configuration of the backend a call's builder was given.
BuilderCfg(c) ==
  IF c.builder = "postgresql" THEN c.cfgBefore.PostgreSQL ELSE c.cfgBefore.MySQL

\* C3: in both builders, a failed username or password lookup makes the
\* builder return the store's error and no session without calling Open; a
\* failed username lookup also means the password is never looked up.
C3_SecretFailure ==
  \A c \in Range(calls) :
    c.builder \in {"postgresql", "mysql"} =>
      LET userEv == GetSecretsEvent(BuilderCfg(c).UsernameSecret)
          passEv == GetSecretsEvent(BuilderCfg(c).PasswordSecret)
          user == secretStore[BuilderCfg(c).UsernameSecret]
          pass == secretStore[BuilderCfg(c).PasswordSecret]
      IN  /\ (userEv \in Range(c.log) /\ user.err # NoErr) =>
                /\ c.err = user.err
                /\ c.session = 0
                /\ NothingOpened(c)
                /\ passEv \notin Range(c.log)
          /\ (passEv \in Range(c.log) /\ pass.err # NoErr) =>
                /\ c.err = pass.err
                /\ c.session = 0
                /\ NothingOpened(c)

C3_Witness ==
  \E c \in Range(calls) :
    /\ c.builder = "mysql"
    /\ secretStore[UsernameSelector].err = NoErr
    /\ secretStore[PasswordSelector].err # NoErr
    /\ c.log = <<GetSecretsEvent(UsernameSelector), GetSecretsEvent(PasswordSelector)>>
    /\ c.err = secretStore[PasswordSelector].err

\* A MySQL builder call that reached the CA-certificate lookup.
ReachedCaLookup(c) ==
  /\ c.builder = "mysql"
  /\ c.cfgBefore.MySQL.CaCertSecret # EmptySelector
  /\ GetSecretsEvent(c.cfgBefore.MySQL.CaCertSecret) \in Range(c.log)

\* C4: in the MySQL builder with a CA-certificate secret set, bytes that are
\* not valid PEM make the builder return the PEM error, register no TLS
\* profile, add no tls option and open no session; a failed CA-certificate
\* lookup returns the store's error without opening a session.
C4_BadCaCert ==
  \A c \in Range(calls) :
    ReachedCaLookup(c) =>
      LET ca == secretStore[c.cfgBefore.MySQL.CaCertSecret]
      IN  /\ (ca.err = NoErr /\ ca.bytes # ValidPEM) =>
                /\ c.err = "failed to append PEM"
                /\ c.session = 0
                /\ "RegisterTLSConfig" \notin Range(c.log)
                /\ c.registryAfter = c.registryBefore
                /\ c.cfgAfter = c.cfgBefore
                /\ c.settings = Nil
                /\ NothingOpened(c)
          /\ ca.err # NoErr =>
                /\ c.err = ca.err
                /\ c.session = 0
                /\ NothingOpened(c)

C4_Witness ==
  \E c \in Range(calls) :
    /\ ReachedCaLookup(c)
    /\ secretStore[CaCertSelector] = SecretFound(InvalidPEM)
    /\ c.cfgBefore.MySQL.Options = EmptyMap
    /\ c.err = "failed to append PEM"

\* The external calls of a call from Open on.
FromOpen(log) ==
  IF "Open" \in Range(log)
    THEN LET i == CHOOSE k \in DOMAIN log : log[k] = "Open"
         IN  SubSeq(log, i, Len(log))
    ELSE <<>>

PoolSetterCalls(persistPool) ==
  IF persistPool = Nil THEN <<>>
  ELSE <<"SetMaxOpenConns", "SetMaxIdleConns", "SetConnMaxLifetime">>

CharsetStatements == <<"SET NAMES 'utf8mb4'", "SET CHARACTER SET utf8mb4">>

CharsetCalls == <<"Exec(SET NAMES 'utf8mb4')", "Exec(SET CHARACTER SET utf8mb4)">>

\* C5: a call returns either an error and no session, or a session on which
\* the whole sequence ran in order: Open, the pool configuration and, for
\* MySQL, the two charset statements, both successful; on any session the
\* second statement is executed only after the first succeeded.
C5_NoPartialSession ==
  /\ \A c \in Range(calls) :
       \/ c.err # NoErr /\ c.session = 0
       \/ /\ c.err = NoErr
          /\ c.session = c.sessionsBefore + 1
          /\ c.sessionsAfter = c.session
          /\ c.builder \in {"postgresql", "mysql"}
          /\ sessions[c.session].driver = c.builder
          /\ FromOpen(c.log) =
               <<"Open">> \o PoolSetterCalls(c.cfgBefore.ConnectionPool)
                 \o (IF c.builder = "mysql" THEN CharsetCalls ELSE <<>>)
          /\ sessions[c.session].execs =
               IF c.builder = "mysql"
                 THEN << <<CharsetStatements[1], TRUE>>, <<CharsetStatements[2], TRUE>> >>
                 ELSE <<>>
  /\ \A i \in DOMAIN sessions :
       \A k \in DOMAIN sessions[i].execs :
         /\ sessions[i].execs[k][1] = CharsetStatements[k]
         /\ k > 1 => sessions[i].execs[k - 1][2]

C5_Witness ==
  /\ \E c \in Range(calls) :
       /\ c.builder = "mysql" /\ c.err = NoErr /\ c.session # 0
       /\ c.cfgBefore.ConnectionPool # Nil
  /\ \E c \in Range(calls) :
       /\ c.builder = "mysql" /\ c.err # NoErr /\ c.sessionsAfter > c.sessionsBefore
       /\ Len(sessions[c.sessionsAfter].execs) = 2

\* C6: two CreateDBSession calls with identical inputs and a deterministic
\* secret store share no mutable state: the second call is given the
\* configuration the first was given and finds the TLS registry as the first
\* found it, and when both succeed they return two distinct sessions with
\* identical configuration.
C6_CallsShareNothing ==
  \A i \in DOMAIN calls :
    i > 1 =>
      LET first == calls[i - 1]
          second == calls[i]
      IN  /\ second.cfgBefore = first.cfgBefore
          /\ second.registryBefore = first.registryBefore
          /\ (first.session # 0 /\ second.session # 0) =>
                /\ first.session # second.session
                /\ sessions[first.session] = sessions[second.session]

\* C7: a call that fails has changed neither the caller's configuration
\* (the MySQL options map included) nor the TLS profile registry.
C7_FailureLeavesNoTrace ==
  \A c \in Range(calls) :
    c.err # NoErr =>
      /\ c.cfgAfter = c.cfgBefore
      /\ c.registryAfter = c.registryBefore

\* The setter calls a session received, as a test double records them.
PoolSetters(persistPool) ==
  << <<"SetMaxOpenConns", persistPool.MaxOpenConns>>,
     <<"SetMaxIdleConns", persistPool.MaxIdleConns>>,
     <<"SetConnMaxLifetime", persistPool.ConnMaxLifetime>> >>

\* The limit the last SetMaxOpenConns call left on a session.
MaxOpenConnsOf(session) ==
  LET idx == { k \in DOMAIN session.setters : session.setters[k][1] = "SetMaxOpenConns" }
  IN  session.setters[CHOOSE k \in idx : \A j \in idx : j <= k][2]

\* C8: ConfigureDBSession leaves the session alone when no pool
\* configuration is given and otherwise calls the three setters with the
\* configured values, once each; it returns the session Open returned, so a
\* session returned with a pool configuration has the configured
\* max-open-connections limit.
C8_PoolConfig ==
  \A c \in Range(calls) :
    c.sessionsAfter > c.sessionsBefore =>
      LET pool == c.cfgBefore.ConnectionPool
          opened == sessions[c.sessionsAfter]
      IN  /\ c.sessionsAfter = c.sessionsBefore + 1
          /\ pool = Nil => opened.setters = <<>>
          /\ pool # Nil => opened.setters = PoolSetters(pool)
          /\ c.session # 0 => c.session = c.sessionsAfter
          /\ (c.session # 0 /\ pool # Nil) =>
                MaxOpenConnsOf(sessions[c.session]) = pool.MaxOpenConns

C8_Witness ==
  /\ \E c \in Range(calls) :
       /\ c.builder = "mysql" /\ c.session # 0
       /\ c.cfgBefore.ConnectionPool # Nil
       /\ c.cfgBefore.ConnectionPool.MaxOpenConns = 5
       /\ MaxOpenConnsOf(sessions[c.session]) = 5
  /\ \E c \in Range(calls) :
       /\ c.session # 0
       /\ sessions[c.session].setters # <<>>

C8_WitnessNoPool ==
  \E c \in Range(calls) :
    c.builder = "postgresql" /\ c.session # 0 /\ c.cfgBefore.ConnectionPool = Nil

\* C9: the descriptor the PostgreSQL builder passes to Open carries
\* sslmode=<SSLMode> exactly when SSL is enabled and SSLMode is non-empty and
\* no options otherwise; user and password are the retrieved secrets, host
\* and database the configured ones.
C9_PostgresDescriptor ==
  \A c \in Range(calls) :
    (c.builder = "postgresql" /\ "Open" \in Range(c.log)) =>
      LET cfg == c.cfgBefore.PostgreSQL
      IN  /\ c.settings # Nil
          /\ (cfg.SSL /\ cfg.SSLMode # "") =>
                /\ DOMAIN c.settings.Options = {"sslmode"}
                /\ c.settings.Options["sslmode"] = cfg.SSLMode
          /\ (~cfg.SSL \/ cfg.SSLMode = "") => c.settings.Options = Nil
          /\ c.settings.User = secretStore[cfg.UsernameSecret].bytes
          /\ c.settings.Password = secretStore[cfg.PasswordSecret].bytes
          /\ c.settings.Host = GetHostname(cfg)
          /\ c.settings.Database = cfg.Database
          /\ c.session # 0 => sessions[c.session].settings = c.settings

C9_Witness ==
  \E c \in Range(calls) :
    /\ c.builder = "postgresql"
    /\ c.cfgBefore.PostgreSQL.SSL
    /\ c.cfgBefore.PostgreSQL.SSLMode = "require"
    /\ c.session # 0
    /\ sessions[c.session].settings.Options = [sslmode |-> "require"]

\* C10: GetTableName reads the table name of the backend CreateDBSession
\* dispatches to (PostgreSQL whenever it is set, MySQL only when PostgreSQL
\* is unset), errs exactly when that name is empty and when neither backend
\* is set; a MySQL configuration that passed session creation never fails
\* GetTableName.
C10_TableName ==
  (tableNameCall.called /\ tableNameCall.cfg # Nil) =>
    LET cfg == tableNameCall.cfg
        r == tableNameCall.result
    IN  /\ ~r.panic
        /\ cfg.PostgreSQL # Nil =>
              /\ r.name = cfg.PostgreSQL.TableName
              /\ (r.err # NoErr) <=> (cfg.PostgreSQL.TableName = "")
        /\ (cfg.PostgreSQL = Nil /\ cfg.MySQL # Nil) =>
              /\ r.name = cfg.MySQL.TableName
              /\ (r.err # NoErr) <=> (cfg.MySQL.TableName = "")
        /\ NeitherSet(cfg) => r.err # NoErr
        /\ \A c \in Range(calls) :
              /\ c.builder = "postgresql" => r.name = c.cfgBefore.PostgreSQL.TableName
              /\ c.builder = "mysql" => r.name = c.cfgBefore.MySQL.TableName
              /\ (c.builder = "mysql" /\ c.err = NoErr) => r.err = NoErr

C10_Witness ==
  /\ tableNameCall.called
  /\ tableNameCall.cfg # Nil
  /\ tableNameCall.cfg.PostgreSQL # Nil
  /\ tableNameCall.cfg.PostgreSQL.TableName = ""
  /\ tableNameCall.cfg.MySQL # Nil
  /\ tableNameCall.cfg.MySQL.TableName # ""
  /\ tableNameCall.result.err = "TableName is empty"
  /\ \E c \in Range(calls) : c.builder = "postgresql" /\ c.err = NoErr

====
